---- MODULE Spec2Model ----
(***************************************************************************)
(* FileToLink (src/api.py): the /stream and /dl request handlers, the      *)
(* concurrency gate api_instance.semaphore, range resolution, the chunk    *)
(* plan, and the prefetch producer / consumer pipeline of file_generator.  *)
(*                                                                         *)
(* Three specifications share the definitions of this module:              *)
(*   Spec        the request handlers and the gate, several requests;      *)
(*   StreamSpec  one accepted /dl response body: aggressive_prefetch, its  *)
(*               enqueue tasks, the asyncio.Queue and the consumer loop;   *)
(*   StreamFairSpec  StreamSpec under the scheduling of the event loop.    *)
(***************************************************************************)
EXTENDS Integers, Sequences, FiniteSets, TLC

(***************************************************************************)
(* Sizes.  The program's values are max_concurrent = 100 (api.py:123),     *)
(* Queue(maxsize=50) (api.py:361), max_parallel_chunks = 10 (api.py:366)   *)
(* and chunk_size = 4 MiB (api.py:337); the model is checked with the      *)
(* scaled values below, and every formula is stated in terms of the names. *)
(***************************************************************************)
max_concurrent == 2
NumRequests == 3
MaxFileSize == 13
chunk_size == 2
maxsize == 2
max_parallel_chunks == 2

Requests == 1..NumRequests

None == "None"

(***************************************************************************)
(* error_messages, abort and the exception handler http_error.             *)
(***************************************************************************)
error_messages ==
    [s \in {400, 401, 403, 404, 416, 500, 503} |->
        CASE s = 400 -> "Invalid request."
          [] s = 401 -> "File code is required to download the file."
          [] s = 403 -> "Invalid file code."
          [] s = 404 -> "File not found."
          [] s = 416 -> "Invalid range."
          [] s = 500 -> "Internal server error."
          [] s = 503 -> "Service temporarily unavailable."]

\* error_messages.get(status_code)
error_messages_get(status_code) ==
    IF status_code \in DOMAIN error_messages THEN error_messages[status_code] ELSE None

\* A Python value is falsy when it is None or the empty string.
Falsy(s) == s = None \/ s = ""

\* abort(status_code, description): the HTTPException it raises.
abort(status_code, description) ==
    [cls |-> "HTTPException",
     status_code |-> status_code,
     detail |-> IF Falsy(description) THEN error_messages_get(status_code)
                ELSE description]

\* An exception that is not an HTTPException.
Raise(cls) == [cls |-> cls, status_code |-> 0, detail |-> None]

NoExc == Raise("none")

\* Every class below other than CancelledError derives from Exception.
IsException(exc) == exc.cls \in {"HTTPException", "TimeoutError", "Exception", "ValueError"}

\* A handler that ignores exc.detail.
http_error_table_only(exc) ==
    [status |-> exc.status_code, body |-> error_messages_get(exc.status_code)]

\* http_error(request, exc): the response of the HTTPException handler.
http_error(exc) ==
    [status |-> exc.status_code,
     body |-> IF Falsy(exc.detail) THEN error_messages_get(exc.status_code)
              ELSE exc.detail]

(***************************************************************************)
(* Inputs of a request.                                                    *)
(*   route   "stream" (GET /stream/{file_id}) or "dl" (GET /dl/{file_id})  *)
(*   code    the query parameter: absent, or a text.  A text is a sequence *)
(*           of tokens; the token "=stream" stands for those 7 characters. *)
(*   lookup  what wait_for(get_messages) does: "file", "nofile" (returns   *)
(*           None), "timeout", "error" (raises)                            *)
(*   media   "named" (message.file.name set), "unnamed" (no name, a known  *)
(*           media attribute), "unsupported" (neither)                     *)
(*   file_size  message.file.size or 0                                     *)
(*   range   the Range header: absent, or the two texts around the "-".    *)
(*           Empty is the empty text; a number is its decimal text.        *)
(***************************************************************************)
Empty == -1

raw_text == <<"k">>

CodeTexts == {<<>>, <<"k">>, <<"x">>, <<"k", "=stream">>, <<"x", "=stream">>}

Codes == {[present |-> FALSE, text |-> <<>>]} \cup
         {[present |-> TRUE, text |-> t] : t \in CodeTexts}

NoRange == [present |-> FALSE, from |-> Empty, until |-> Empty]

RangeHeaders == {NoRange} \cup
    {[present |-> TRUE, from |-> f, until |-> u] :
        f \in {Empty} \cup (0..MaxFileSize), u \in {Empty} \cup (0..(MaxFileSize + 1))}

\* request.query_params.get("code") or abort(401): the code is None or "".
code_missing(code) == ~code.present \/ code.text = <<>>

\* code.endswith("=stream") and code[:-7]
endswith_stream(text) == Len(text) > 0 /\ text[Len(text)] = "=stream"

code_clean(text) == SubSeq(text, 1, Len(text) - 1)

\* What the try body of the lookup raises: TimeoutError from wait_for, the
\* error of get_messages, or abort(404) when the message is None.
lookup_try(lookup) ==
    CASE lookup = "timeout" -> Raise("TimeoutError")
      [] lookup = "error" -> Raise("Exception")
      [] lookup = "nofile" -> abort(404, None)
      [] OTHER -> NoExc

\* The try/except of the lookup: except asyncio.TimeoutError, then
\* except Exception, which also catches the HTTPException of abort(404).
lookup_block(lookup) ==
    LET e == lookup_try(lookup) IN
    IF e.cls = "TimeoutError" THEN abort(500, "Request timeout")
    ELSE IF IsException(e) THEN abort(500, None)
    ELSE e

\* get_file_properties(message): abort(400) when the message has neither a
\* file name nor a known media attribute.
get_file_properties(media) ==
    IF media = "unsupported" THEN abort(400, "Invalid media type.") ELSE NoExc

(***************************************************************************)
(* Range resolution and the chunk plan of transmit_file.                   *)
(***************************************************************************)
Min(a, b) == IF a < b THEN a ELSE b

\* math.ceil(a / c) and math.floor(a / c) for a >= 0, c > 0
ceil_div(a, c) == (a + c - 1) \div c

floor_div(a, c) == a \div c

\* int(text): ValueError on the empty text.
int_ok(tok) == tok # Empty

\* from_bytes, until_bytes as parsed and defaulted (before the check).
parse_from(h) == IF h.present THEN h.from ELSE 0

parse_until(h, file_size) ==
    IF h.present /\ h.until # Empty THEN h.until ELSE file_size - 1

\* A check that also rejects until_bytes = file_size.
invalid_range_strict(from_bytes, until_bytes, file_size) ==
    (until_bytes >= file_size) \/ (from_bytes < 0) \/ (until_bytes < from_bytes)

\* The 416 condition.
invalid_range(from_bytes, until_bytes, file_size) ==
    (until_bytes > file_size) \/ (from_bytes < 0) \/ (until_bytes < from_bytes)

\* until_bytes = min(until_bytes, file_size - 1)
clamp_until(until_bytes, file_size) == Min(until_bytes, file_size - 1)

plan_offset(from_bytes, c) == from_bytes - (from_bytes % c)

plan_first_part_cut(from_bytes, c) == from_bytes - plan_offset(from_bytes, c)

plan_last_part_cut(until_bytes, c) == (until_bytes % c) + 1

plan_req_length(from_bytes, until_bytes) == until_bytes - from_bytes + 1

\* A part count taken over until + 1 bytes.
plan_part_count_of_length(from_bytes, until_bytes, c) ==
    ceil_div(until_bytes + 1, c) - floor_div(plan_offset(from_bytes, c), c)

plan_part_count(from_bytes, until_bytes, c) ==
    ceil_div(until_bytes, c) - floor_div(plan_offset(from_bytes, c), c)

NoPlan == [from_bytes |-> 0, until_bytes |-> 0, file_size |-> 0, offset |-> 0,
           first_part_cut |-> 0, last_part_cut |-> 0, req_length |-> 0,
           part_count |-> 0]

\* The plan of an accepted range; until_bytes is the value before clamping.
chunk_plan(from_bytes, until_bytes, file_size, c) ==
    LET u == clamp_until(until_bytes, file_size) IN
    [from_bytes |-> from_bytes, until_bytes |-> u, file_size |-> file_size,
     offset |-> plan_offset(from_bytes, c),
     first_part_cut |-> plan_first_part_cut(from_bytes, c),
     last_part_cut |-> plan_last_part_cut(u, c),
     req_length |-> plan_req_length(from_bytes, u),
     part_count |-> plan_part_count(from_bytes, u, c)]

(***************************************************************************)
(* Responses.  kind is "error" (http_error's response to an HTTPException),*)
(* "unhandled" (another exception left the handler: the framework's        *)
(* business), "cancelled" (the request task was cancelled), "html" (the    *)
(* player page) or "stream" (the StreamingResponse of /dl).                *)
(***************************************************************************)
NoContentRange == [first |-> 0, last |-> 0, size |-> 0]

NoResp == [kind |-> "none", status |-> 0, body |-> None,
           content_range |-> NoContentRange, content_length |-> 0,
           plan |-> NoPlan]

\* What the client gets when exc leaves the handler.
exception_response(exc) ==
    IF exc.cls = "HTTPException"
    THEN [NoResp EXCEPT !.kind = "error",
                        !.status = http_error(exc).status,
                        !.body = http_error(exc).body]
    ELSE IF exc.cls = "CancelledError"
    THEN [NoResp EXCEPT !.kind = "cancelled"]
    ELSE [NoResp EXCEPT !.kind = "unhandled"]

\* templates.TemplateResponse("player.html", ...) or the HTMLResponse fallback.
html_response == [NoResp EXCEPT !.kind = "html", !.status = 200]

\* A response that is 200 whatever the request.
stream_status_always_200(range_header) == 200

\* status_code=206 if range_header else 200
stream_status(range_header) == IF range_header.present THEN 206 ELSE 200

\* headers and status of the StreamingResponse
streaming_response(range_header, plan) ==
    [kind |-> "stream",
     status |-> stream_status(range_header),
     body |-> None,
     content_range |-> [first |-> plan.from_bytes, last |-> plan.until_bytes,
                        size |-> plan.file_size],
     content_length |-> plan.req_length,
     plan |-> plan]

\* The code that is compared with file.raw_text.
compared_code(route, text) ==
    IF route = "dl" /\ endswith_stream(text) THEN code_clean(text) ELSE text

\* A check that the "=stream" branch forgets.
code_check_skipped_on_stream(route, text) ==
    IF ~endswith_stream(text) /\ text # raw_text THEN abort(403, None) ELSE NoExc

\* if code != file.raw_text: abort(403)
code_check(route, text) ==
    IF compared_code(route, text) # raw_text THEN abort(403, None) ELSE NoExc

\* transmit_file from the Range header to the StreamingResponse.
range_and_plan(range_header, file_size) ==
    IF range_header.present /\ ~int_ok(range_header.from)
    THEN exception_response(Raise("ValueError"))
    ELSE LET from_bytes == parse_from(range_header)
             until_bytes == parse_until(range_header, file_size)
         IN IF invalid_range(from_bytes, until_bytes, file_size)
            THEN exception_response(abort(416, "Invalid range."))
            ELSE streaming_response(range_header,
                     chunk_plan(from_bytes, until_bytes, file_size, chunk_size))

\* A handler that validates the range before it compares the code.
handler_tail_range_before_code(q) ==
    IF lookup_block(q.lookup) # NoExc
    THEN exception_response(lookup_block(q.lookup))
    ELSE IF /\ q.route = "dl"
            /\ ~endswith_stream(q.code.text)
            /\ range_and_plan(q.range, q.file_size).kind = "error"
    THEN range_and_plan(q.range, q.file_size)
    ELSE IF code_check(q.route, q.code.text) # NoExc
    THEN exception_response(code_check(q.route, q.code.text))
    ELSE IF get_file_properties(q.media) # NoExc
    THEN exception_response(get_file_properties(q.media))
    ELSE IF q.route = "stream" \/ endswith_stream(q.code.text)
    THEN html_response
    ELSE range_and_plan(q.range, q.file_size)

\* The handler from the completion of the lookup to its return or raise:
\* stream_file, the "=stream" branch of transmit_file, and transmit_file.
handler_tail(q) ==
    IF lookup_block(q.lookup) # NoExc
    THEN exception_response(lookup_block(q.lookup))
    ELSE IF code_check(q.route, q.code.text) # NoExc
    THEN exception_response(code_check(q.route, q.code.text))
    ELSE IF get_file_properties(q.media) # NoExc
    THEN exception_response(get_file_properties(q.media))
    ELSE IF q.route = "stream" \/ endswith_stream(q.code.text)
    THEN html_response
    ELSE range_and_plan(q.range, q.file_size)

(***************************************************************************)
(* The inputs the model draws.  A field the handler never reads on the     *)
(* path the request takes is held at its default, so that two requests     *)
(* the code cannot tell apart are one input.                               *)
(***************************************************************************)
Input(route, code, lookup, media, file_size, range) ==
    [route |-> route, code |-> code, lookup |-> lookup, media |-> media,
     file_size |-> file_size, range |-> range]

NoInput == Input("dl", [present |-> FALSE, text |-> <<>>], "file", "named", 0, NoRange)

reads_lookup(q) == ~code_missing(q.code)

reads_media(q) ==
    reads_lookup(q) /\ q.lookup = "file" /\ code_check(q.route, q.code.text) = NoExc

reads_range(q) ==
    reads_media(q) /\ q.media # "unsupported" /\ q.route = "dl"
    /\ ~endswith_stream(q.code.text)

BaseInputs ==
    {q \in {Input(ro, co, lo, me, 0, NoRange) :
                ro \in {"stream", "dl"}, co \in Codes,
                lo \in {"file", "nofile", "timeout", "error"},
                me \in {"named", "unnamed", "unsupported"}} :
        /\ ~reads_lookup(q) => q.lookup = "file"
        /\ ~reads_media(q) => q.media = "named"}

WideInputs ==
    BaseInputs \cup
    {[q EXCEPT !.file_size = fs, !.range = ra] :
        q \in {b \in BaseInputs : reads_range(b)},
        fs \in 0..MaxFileSize, ra \in RangeHeaders}

GoodCode == [present |-> TRUE, text |-> raw_text]

\* The requests that run side by side: a download, a lookup that finds
\* nothing, and a request without a code.
NarrowInputs ==
    {Input("dl", GoodCode, "file", "named", chunk_size + 1, NoRange),
     Input("dl", GoodCode, "nofile", "named", 0, NoRange),
     NoInput}

(***************************************************************************)
(* State.                                                                   *)
(***************************************************************************)
VARIABLES
    \* the request handlers and the gate
    pc,             \* per request: where its handler (or its response body) is
    req,            \* per request: its inputs
    resp,           \* per request: the response, once decided
    semaphore,      \* api_instance.semaphore._value
    sem_waiters,    \* the requests waiting in semaphore.acquire(), in order
    holds,          \* the requests inside "async with api_instance.semaphore"
    buffer_task,    \* per request: the prefetch task of its file_generator
    sent,           \* per request: the parts its file_generator has yielded
    \* one response body (StreamSpec)
    plan,           \* the chunk plan the generator closes over
    src_next,       \* iter_download: index of the next chunk it yields
    producer,       \* where aggressive_prefetch is
    prod_chunk,     \* the chunk aggressive_prefetch holds
    chunk_tasks,    \* its deque of enqueue tasks
    tasks,          \* the state of every enqueue task created, by chunk index
    ready,          \* the tasks the event loop is to run, in order: enqueue
                    \* tasks, and buffer_task once it is cancelled
    putters,        \* prefetch_buffer._putters
    buffer,         \* prefetch_buffer._queue
    consumer,       \* where file_generator is
    done_task,      \* the enqueue task aggressive_prefetch popped and awaits
    current_part,   \* its current_part
    result,         \* how file_generator left its loop
    out             \* the bytes it has yielded (their positions in the file)

handler_vars == <<pc, req, resp, semaphore, sem_waiters, holds, buffer_task, sent>>

stream_vars == <<plan, src_next, producer, prod_chunk, chunk_tasks, tasks,
                 ready, putters, buffer, consumer, done_task,
                 current_part, result, out>>

vars == <<handler_vars, stream_vars>>

(***************************************************************************)
(* The gate: asyncio.Semaphore(max_concurrent).  acquire() takes a permit  *)
(* when one is free and nobody waits, and otherwise waits in order;        *)
(* release() hands the permit to the first waiter, which resumes inside    *)
(* the "async with" block.                                                 *)
(***************************************************************************)
\* semaphore.acquire() by request r, which goes on to next_pc once inside.
acquire(r, next_pc) ==
    IF semaphore > 0 /\ sem_waiters = <<>>
    THEN /\ semaphore' = semaphore - 1
         /\ holds' = holds \cup {r}
         /\ sem_waiters' = sem_waiters
         /\ pc' = [pc EXCEPT ![r] = next_pc]
    ELSE /\ sem_waiters' = Append(sem_waiters, r)
         /\ pc' = [pc EXCEPT ![r] = "acquire"]
         /\ UNCHANGED <<semaphore, holds>>

\* semaphore.release() by request r, which goes on to next_pc.
release(r, next_pc) ==
    IF sem_waiters = <<>>
    THEN /\ semaphore' = semaphore + 1
         /\ holds' = holds \ {r}
         /\ sem_waiters' = sem_waiters
         /\ pc' = [pc EXCEPT ![r] = next_pc]
    ELSE /\ semaphore' = semaphore
         /\ holds' = (holds \ {r}) \cup {Head(sem_waiters)}
         /\ sem_waiters' = Tail(sem_waiters)
         /\ pc' = [pc EXCEPT ![r] = next_pc, ![Head(sem_waiters)] = "get_me"]

\* A block that gives the permit back only on a return.
leave_gate_return_only(r, rs) ==
    /\ resp' = [resp EXCEPT ![r] = rs]
    /\ IF rs.kind \in {"stream", "html"}
       THEN release(r, IF rs.kind = "stream" THEN "responded" ELSE "done")
       ELSE /\ pc' = [pc EXCEPT ![r] = "done"]
            /\ UNCHANGED <<semaphore, holds, sem_waiters>>

\* Leaving the "async with" block with response rs: __aexit__ releases the
\* permit however the block is left.
leave_gate(r, rs) ==
    /\ resp' = [resp EXCEPT ![r] = rs]
    /\ release(r, IF rs.kind = "stream" THEN "responded" ELSE "done")

(***************************************************************************)
(* The handlers stream_file and transmit_file, one action per stretch      *)
(* between two awaits.                                                     *)
(***************************************************************************)
\* code = request.query_params.get("code") or abort(401); then the handler
\* enters "async with api_instance.semaphore".
Enter(r) ==
    /\ pc[r] = "new"
    /\ IF code_missing(req[r].code)
       THEN /\ resp' = [resp EXCEPT ![r] = exception_response(abort(401, None))]
            /\ pc' = [pc EXCEPT ![r] = "done"]
            /\ UNCHANGED <<semaphore, sem_waiters, holds>>
       ELSE /\ acquire(r, "get_me")
            /\ UNCHANGED resp
    /\ UNCHANGED <<req, buffer_task, sent, stream_vars>>

\* me = await api_instance.get_me(); file_task = create_task(get_messages(...))
GetMe(r) ==
    /\ pc[r] = "get_me"
    /\ pc' = [pc EXCEPT ![r] = "lookup"]
    /\ UNCHANGED <<req, resp, semaphore, sem_waiters, holds, buffer_task, sent,
                   stream_vars>>

\* get_me() raises: the exception leaves the handler.
GetMeFails(r) ==
    /\ pc[r] = "get_me"
    /\ leave_gate(r, exception_response(Raise("Exception")))
    /\ UNCHANGED <<req, buffer_task, sent, stream_vars>>

\* wait_for(file_task, 10.0) completes (a file, None, a timeout or an error)
\* and the handler runs to its return or raise.
LookupDone(r) ==
    /\ pc[r] = "lookup"
    /\ leave_gate(r, handler_tail(req[r]))
    /\ UNCHANGED <<req, buffer_task, sent, stream_vars>>

\* The request task is cancelled (the client went away) while it waits for
\* a permit, for get_me() or for the lookup.
Cancel(r) ==
    /\ pc[r] \in {"acquire", "get_me", "lookup"}
    /\ IF pc[r] = "acquire"
       THEN /\ sem_waiters' = SelectSeq(sem_waiters, LAMBDA w : w # r)
            /\ pc' = [pc EXCEPT ![r] = "done"]
            /\ resp' = [resp EXCEPT ![r] = exception_response(Raise("CancelledError"))]
            /\ UNCHANGED <<semaphore, holds>>
       ELSE leave_gate(r, exception_response(Raise("CancelledError")))
    /\ UNCHANGED <<req, buffer_task, sent, stream_vars>>

(***************************************************************************)
(* The body of a StreamingResponse, as the gate sees it: the transport     *)
(* iterates file_generator() after transmit_file has returned.  StreamSpec *)
(* below is the same generator step by step.                               *)
(***************************************************************************)
\* First iteration: buffer_task = asyncio.create_task(aggressive_prefetch())
BodyStart(r) ==
    /\ pc[r] = "responded"
    /\ pc' = [pc EXCEPT ![r] = "body"]
    /\ buffer_task' = [buffer_task EXCEPT ![r] = "running"]
    /\ UNCHANGED <<req, resp, semaphore, sem_waiters, holds, sent, stream_vars>>

\* One part is yielded.
BodyYield(r) ==
    /\ pc[r] = "body"
    /\ sent[r] < resp[r].plan.part_count
    /\ sent' = [sent EXCEPT ![r] = sent[r] + 1]
    /\ UNCHANGED <<pc, req, resp, semaphore, sem_waiters, holds, buffer_task,
                   stream_vars>>

\* The generator ends (loop over, or closed on a disconnect): its finally
\* block cancels buffer_task and awaits it.
BodyEnd(r) ==
    /\ pc[r] = "body"
    /\ pc' = [pc EXCEPT ![r] = "done"]
    /\ buffer_task' = [buffer_task EXCEPT ![r] = "done"]
    /\ UNCHANGED <<req, resp, semaphore, sem_waiters, holds, sent, stream_vars>>

\* The client goes away before the transport iterates the generator.
BodyDropped(r) ==
    /\ pc[r] = "responded"
    /\ pc' = [pc EXCEPT ![r] = "done"]
    /\ UNCHANGED <<req, resp, semaphore, sem_waiters, holds, buffer_task, sent,
                   stream_vars>>

(***************************************************************************)
(* Spec: the handlers and the gate.                                        *)
(***************************************************************************)
NoChunk == -1

\* No response body is being produced.
StreamIdle ==
    /\ plan = NoPlan
    /\ src_next = 0
    /\ producer = "idle"
    /\ prod_chunk = NoChunk
    /\ chunk_tasks = <<>>
    /\ tasks = <<>>
    /\ ready = <<>>
    /\ putters = <<>>
    /\ buffer = <<>>
    /\ consumer = "idle"
    /\ done_task = NoChunk
    /\ current_part = 1
    /\ result = "none"
    /\ out = <<>>

\* Either one request with any input, or NumRequests requests side by side.
Init ==
    /\ \/ \E q \in WideInputs :
            /\ req = [r \in Requests |-> IF r = 1 THEN q ELSE NoInput]
            /\ pc = [r \in Requests |-> IF r = 1 THEN "new" ELSE "absent"]
       \/ /\ req \in [Requests -> NarrowInputs]
          /\ pc = [r \in Requests |-> "new"]
    /\ resp = [r \in Requests |-> NoResp]
    /\ semaphore = max_concurrent
    /\ sem_waiters = <<>>
    /\ holds = {}
    /\ buffer_task = [r \in Requests |-> "none"]
    /\ sent = [r \in Requests |-> 0]
    /\ StreamIdle

Next ==
    \E r \in Requests :
        \/ Enter(r)
        \/ GetMe(r)
        \/ GetMeFails(r)
        \/ LookupDone(r)
        \/ Cancel(r)
        \/ BodyStart(r)
        \/ BodyYield(r)
        \/ BodyEnd(r)
        \/ BodyDropped(r)

Spec == Init /\ [][Next]_vars

(***************************************************************************)
(* Properties of the handlers and the gate (checked under Spec).           *)
(***************************************************************************)
\* The handler of r has got past the lookup and decided a response itself.
Decided(r) == pc[r] \in {"done", "responded", "body"} /\ resp[r].kind \in {"error", "html", "stream"}

\* C2: a session holds a permit of the gate whenever its prefetch producer
\* runs or its body is being sent, so that the sessions resolving metadata
\* or streaming never outnumber max_concurrent.
C2_PermitHeldWhileStreaming ==
    /\ \A r \in Requests :
          (pc[r] \in {"get_me", "lookup", "body"} \/ buffer_task[r] = "running")
              => r \in holds
    /\ Cardinality({r \in Requests : pc[r] \in {"get_me", "lookup", "body"}})
          <= max_concurrent

\* C3: a lookup that completes in time and returns no file ends the request
\* with 404; 500 comes only from a lookup timeout or a lookup failure.
C3_NotFoundIs404 ==
    \A r \in Requests :
        (Decided(r) /\ ~code_missing(req[r].code)) =>
            /\ req[r].lookup = "nofile" => resp[r].status = 404
            /\ resp[r].status = 500 => req[r].lookup \in {"timeout", "error"}

\* The range of a /dl request as the claim C4 resolves it.
ClaimFrom(q) == IF q.range.present THEN q.range.from ELSE 0

ClaimUntil(q) ==
    IF q.range.present /\ q.range.until # Empty THEN q.range.until
    ELSE q.file_size - 1

\* The request reached range resolution with a parsable header.
RangeResolved(r) ==
    /\ Decided(r)
    /\ reads_range(req[r])
    /\ req[r].range.present => req[r].range.from # Empty

\* C4: a /dl request is rejected with 416 exactly when until > fileSize,
\* from < 0 or until < from; every 0 <= from <= until < fileSize is accepted
\* with req_length = until - from + 1; a rejection starts no prefetch
\* producer and sends no part.
C4_RangeRejectedExactlyWhenInvalid ==
    \A r \in Requests :
        RangeResolved(r) =>
            LET f == ClaimFrom(req[r])
                u == ClaimUntil(req[r])
                n == req[r].file_size
            IN /\ (resp[r].kind = "error" /\ resp[r].status = 416)
                      <=> (u > n \/ f < 0 \/ u < f)
               /\ (0 <= f /\ f <= u /\ u < n) =>
                      /\ resp[r].kind = "stream"
                      /\ resp[r].plan.req_length = u - f + 1
               /\ resp[r].status = 416 =>
                      /\ buffer_task[r] = "none"
                      /\ sent[r] = 0
                      /\ pc[r] = "done"

C4_Witness ==
    \E r \in Requests :
        /\ RangeResolved(r) /\ pc[r] = "done"
        /\ resp[r].status = 416
        /\ req[r].range.present
        /\ ClaimUntil(req[r]) < ClaimFrom(req[r])

\* C6: an accepted /dl response has status 206 with a Range header and 200
\* without, Content-Length until - from + 1 and Content-Range
\* from-until/fileSize with until defaulted and clamped to fileSize - 1;
\* fileSize 1000 without Range gives 200 and Content-Length 1000, and
\* "bytes=500-" gives 206 and Content-Range 500-999/1000.
C6_AcceptedResponseHeaders ==
    /\ \A r \in Requests :
          resp[r].kind = "stream" =>
              LET f == ClaimFrom(req[r])
                  n == req[r].file_size
                  u == IF ClaimUntil(req[r]) > n - 1 THEN n - 1 ELSE ClaimUntil(req[r])
              IN /\ resp[r].status = IF req[r].range.present THEN 206 ELSE 200
                 /\ resp[r].content_length = u - f + 1
                 /\ resp[r].content_range = [first |-> f, last |-> u, size |-> n]
    /\ LET a == range_and_plan(NoRange, 1000)
           b == range_and_plan([present |-> TRUE, from |-> 500, until |-> Empty], 1000)
       IN /\ a.kind = "stream" /\ a.status = 200 /\ a.content_length = 1000
          /\ a.content_range = [first |-> 0, last |-> 999, size |-> 1000]
          /\ b.kind = "stream" /\ b.status = 206
          /\ b.content_range = [first |-> 500, last |-> 999, size |-> 1000]

C6_Witness ==
    \E r \in Requests :
        /\ resp[r].kind = "stream" /\ resp[r].status = 206
        /\ req[r].range.until = req[r].file_size
        /\ resp[r].content_range.last = req[r].file_size - 1
        /\ pc[r] = "body"

\* C8 as claimed: the body of every error response is the entry of
\* error_messages for its status.
C8_BodyIsTableEntry ==
    \A r \in Requests :
        resp[r].kind = "error" => resp[r].body = error_messages[resp[r].status]

\* C8 as amended: the body of an error response is the description the
\* handler gave to abort, "Request timeout" for a lookup timeout and
\* "Invalid media type." for a message of no known media type, and on every
\* other error path the entry of error_messages for the returned status.
C8_BodyIsDescriptionOrTableEntry ==
    \A r \in Requests :
        resp[r].kind = "error" =>
            resp[r].body =
                IF ~code_missing(req[r].code) /\ req[r].lookup = "timeout"
                THEN "Request timeout"
                ELSE IF resp[r].status = 400 THEN "Invalid media type."
                ELSE error_messages[resp[r].status]

C8_Witness ==
    \E r \in Requests :
        /\ pc[r] = "done" /\ resp[r].kind = "error"
        /\ req[r].lookup = "timeout"
        /\ resp[r].status = 500
        /\ resp[r].body = "Request timeout"

\* The code the claim C9 compares with the access code.
ClaimCode(q) ==
    IF q.route = "dl" /\ q.code.text # <<>>
          /\ q.code.text[Len(q.code.text)] = "=stream"
    THEN SubSeq(q.code.text, 1, Len(q.code.text) - 1)
    ELSE q.code.text

\* C9: a request without a code ends with 401; a request whose code differs
\* from the access code of the resolved file ends with 403, the "=stream"
\* suffix being removed first on /dl.
C9_MissingCode401MismatchedCode403 ==
    \A r \in Requests :
        /\ (pc[r] \notin {"absent", "new"} /\ code_missing(req[r].code)) =>
              /\ pc[r] = "done" /\ resp[r].kind = "error" /\ resp[r].status = 401
        /\ (Decided(r) /\ ~code_missing(req[r].code) /\ req[r].lookup = "file"
              /\ ClaimCode(req[r]) # raw_text) =>
              /\ pc[r] = "done" /\ resp[r].kind = "error" /\ resp[r].status = 403

C9_Witness ==
    \E r \in Requests :
        /\ pc[r] = "done" /\ req[r].route = "dl"
        /\ req[r].code.text = <<"x", "=stream">>
        /\ req[r].lookup = "file"
        /\ resp[r].status = 403

\* C10: the gate never has more than max_concurrent holders; a request that
\* finds every permit taken waits, without any response (no 503); and every
\* exit of the handler gives the permit back, so that with no handler
\* running the available permits equal max_concurrent.
C10_GateBoundedAndReleased ==
    /\ Cardinality(holds) <= max_concurrent
    /\ semaphore = max_concurrent - Cardinality(holds)
    /\ \A r \in Requests :
          /\ resp[r].status # 503
          /\ r \in holds <=> pc[r] \in {"get_me", "lookup"}
          /\ pc[r] = "acquire" =>
                /\ resp[r] = NoResp
                /\ semaphore = 0
                /\ \E i \in 1..Len(sem_waiters) : sem_waiters[i] = r
    /\ (\A r \in Requests : pc[r] \notin {"acquire", "get_me", "lookup"})
          => semaphore = max_concurrent

C10_Witness ==
    \E v \in Requests :
        /\ pc[v] = "acquire"
        /\ sem_waiters = <<v>>
        /\ Cardinality(holds) = max_concurrent
        /\ semaphore = 0

(***************************************************************************)
(* StreamSpec: one response body.  file_generator (the consumer) creates   *)
(* buffer_task = aggressive_prefetch() (the producer), which draws chunks  *)
(* from iter_download and creates one task prefetch_buffer.put(chunk) per  *)
(* chunk.  Chunk k is the k-th chunk iter_download yields: the bytes       *)
(* offset + k * chunk_size up to the next chunk or the end of the file.    *)
(* A byte is written as its position in the file.                          *)
(*                                                                         *)
(* An enqueue task is "ready" (created, not yet run), "blocked" (waiting   *)
(* in prefetch_buffer._putters), "woken" (its putter future was resolved   *)
(* by a get, it has not run yet), "done" or "cancelled".                   *)
(***************************************************************************)
Sentinel == -1

\* The chunks iter_download yields from plan.offset to the end of the file.
n_chunks == ceil_div(plan.file_size - plan.offset, chunk_size)

chunk_base(k) == plan.offset + k * chunk_size

chunk_len(k) == Min(chunk_size, plan.file_size - chunk_base(k))

\* chunk[lo:hi] of chunk k, for 0 <= lo and 0 <= hi.
py_slice(k, lo, hi) ==
    LET stop == Min(hi, chunk_len(k))
        n == IF stop > lo THEN stop - lo ELSE 0
    IN [i \in 1..n |-> chunk_base(k) + lo + i - 1]

\* The slice file_generator yields for chunk k as part number part.
yielded_slice(k, part) ==
    IF plan.part_count = 1 THEN py_slice(k, plan.first_part_cut, plan.last_part_cut)
    ELSE IF part = 1 THEN py_slice(k, plan.first_part_cut, chunk_size)
    ELSE IF part = plan.part_count THEN py_slice(k, 0, plan.last_part_cut)
    ELSE py_slice(k, 0, chunk_size)

\* A queue that takes one item more than maxsize.
full_above_maxsize(q) == Len(q) > maxsize

\* prefetch_buffer.full()
full(q) == Len(q) >= maxsize

task_pending(ts, k) == ts[k + 1] \in {"ready", "blocked", "woken"}

\* buffer_task.done()
producer_done(pr) == pr \in {"finished", "failed", "cancelled"}

\* buffer_task in the run queue of the loop.
BufferTask == -2

\* The queue state a step works on: enqueue tasks, the loop's run queue,
\* putters, producer.
QState(ts, rq, ps, pr) == [tasks |-> ts, ready |-> rq, putters |-> ps, producer |-> pr]

\* A get that wakes no putter.
wakeup_next_lost(S) == S

\* Queue._wakeup_next(self._putters): the first putter is resumed; its
\* task is scheduled behind the tasks already waiting to run.
wakeup_next(S) ==
    IF S.putters = <<>> THEN S
    ELSE IF Head(S.putters) = Sentinel
    THEN QState(S.tasks, S.ready, Tail(S.putters), "put_woken")
    ELSE QState([S.tasks EXCEPT ![Head(S.putters) + 1] = "woken"],
                Append(S.ready, Head(S.putters)), Tail(S.putters), S.producer)

\* A window that lets one task too many in.
window_full_off_by_one(ct) == Len(ct) > max_parallel_chunks

\* len(chunk_tasks) >= max_parallel_chunks
window_full(ct) == Len(ct) >= max_parallel_chunks

\* The enqueue task the producer is awaiting, or NoChunk: done_task in the
\* while loop, the first unfinished task in the final for loop.
awaited_task(ts, ct, pr, dt) ==
    IF pr = "window_wait" THEN dt
    ELSE IF pr = "drain" /\ \E i \in 1..Len(ct) : task_pending(ts, ct[i])
    THEN ct[CHOOSE i \in 1..Len(ct) :
                /\ task_pending(ts, ct[i])
                /\ \A j \in 1..(i - 1) : ~task_pending(ts, ct[j])]
    ELSE NoChunk

\* Task.cancel() of enqueue task k: a blocked put leaves _putters; a woken
\* put passes its wake-up on when the queue has room.
cancel_task(S, k, q) ==
    IF k = NoChunk \/ ~task_pending(S.tasks, k) THEN S
    ELSE LET ts == [S.tasks EXCEPT ![k + 1] = "cancelled"]
             rq == SelectSeq(S.ready, LAMBDA x : x # k)
         IN
         IF S.tasks[k + 1] = "blocked"
         THEN QState(ts, rq, SelectSeq(S.putters, LAMBDA x : x # k), S.producer)
         ELSE IF S.tasks[k + 1] = "woken" /\ ~full(q)
         THEN wakeup_next(QState(ts, rq, S.putters, S.producer))
         ELSE QState(ts, rq, S.putters, S.producer)

\* buffer_task.cancel(): the task or the put the producer is awaiting is
\* cancelled, and the producer is scheduled to get CancelledError at its
\* await, behind the tasks already waiting to run.
cancel_producer(S, ct, dt, q) ==
    LET T == IF S.producer \in {"window_wait", "drain"}
             THEN cancel_task(S, awaited_task(S.tasks, ct, S.producer, dt), q)
             ELSE IF S.producer = "put_blocked"
             THEN QState(S.tasks, S.ready,
                         SelectSeq(S.putters, LAMBDA x : x # Sentinel), S.producer)
             ELSE IF S.producer = "put_woken" /\ ~full(q)
             THEN wakeup_next(S)
             ELSE S
    IN QState(T.tasks, Append(T.ready, BufferTask), T.putters, "cancelling")

\* A finally block that leaves the producer alone.
finally_block_no_cancel(S, ct, dt, q) ==
    [tasks |-> S.tasks, ready |-> S.ready, putters |-> S.putters,
     producer |-> S.producer, consumer |-> "done"]

\* finally: if buffer_task and not buffer_task.done(): cancel it, await it.
finally_block(S, ct, dt, q) ==
    IF producer_done(S.producer)
    THEN [tasks |-> S.tasks, ready |-> S.ready, putters |-> S.putters,
          producer |-> S.producer, consumer |-> "done"]
    ELSE LET T == cancel_producer(S, ct, dt, q) IN
         [tasks |-> T.tasks, ready |-> T.ready, putters |-> T.putters,
          producer |-> T.producer, consumer |-> "finally"]

\* The consumer leaves its loop with result res, the queue being q.
leave_loop(S, q, res) ==
    LET F == finally_block(S, chunk_tasks, done_task, q) IN
    /\ result' = res
    /\ tasks' = F.tasks
    /\ ready' = F.ready
    /\ putters' = F.putters
    /\ producer' = F.producer
    /\ consumer' = F.consumer

(***************************************************************************)
(* The producer, aggressive_prefetch.                                      *)
(***************************************************************************)
\* The body of the async for with chunk k in hand: the while loop over a
\* full window, then create_task(prefetch_buffer.put(chunk)).
admit(k, ct) ==
    IF window_full(ct) /\ task_pending(tasks, Head(ct))
    THEN /\ producer' = "window_wait"
         /\ done_task' = Head(ct)
         /\ chunk_tasks' = Tail(ct)
         /\ prod_chunk' = k
         /\ tasks' = tasks
         /\ ready' = ready
    ELSE /\ producer' = "fetch"
         /\ done_task' = NoChunk
         /\ chunk_tasks' = Append(IF window_full(ct) THEN Tail(ct) ELSE ct, k)
         /\ prod_chunk' = NoChunk
         /\ tasks' = Append(tasks, "ready")
         /\ ready' = Append(ready, k)

\* iter_download yields the next chunk.
ProducerFetch ==
    /\ producer = "fetch"
    /\ src_next < n_chunks
    /\ src_next' = src_next + 1
    /\ admit(src_next, chunk_tasks)
    /\ UNCHANGED <<handler_vars, plan, putters, buffer, consumer, current_part,
                   result, out>>

\* iter_download raises.
ProducerFetchFails ==
    /\ producer = "fetch"
    /\ src_next < n_chunks
    /\ producer' = "failed"
    /\ UNCHANGED <<handler_vars, plan, src_next, prod_chunk, chunk_tasks, tasks,
                   ready, putters, buffer, consumer, done_task, current_part, result,
                   out>>

\* await done_task returns: the while loop is tested again.
ProducerWindowResume ==
    /\ producer = "window_wait"
    /\ ~task_pending(tasks, done_task)
    /\ admit(prod_chunk, chunk_tasks)
    /\ UNCHANGED <<handler_vars, plan, src_next, putters, buffer, consumer,
                   current_part, result, out>>

\* iter_download is exhausted: for task in chunk_tasks: await task
ProducerSourceEnds ==
    /\ producer = "fetch"
    /\ src_next = n_chunks
    /\ producer' = "drain"
    /\ UNCHANGED <<handler_vars, plan, src_next, prod_chunk, chunk_tasks, tasks,
                   ready, putters, buffer, consumer, done_task, current_part, result,
                   out>>

\* iter_download ends before the end of the file (the remote store answers
\* with a short read): the async for ends as on exhaustion.
ProducerSourceEndsShort ==
    /\ producer = "fetch"
    /\ src_next < n_chunks
    /\ producer' = "drain"
    /\ UNCHANGED <<handler_vars, plan, src_next, prod_chunk, chunk_tasks, tasks,
                   ready, putters, buffer, consumer, done_task, current_part, result,
                   out>>

\* await prefetch_buffer.put(None), from its start or after a wake-up.
put_sentinel ==
    IF full(buffer)
    THEN /\ putters' = Append(putters, Sentinel)
         /\ producer' = "put_blocked"
         /\ buffer' = buffer
    ELSE /\ buffer' = Append(buffer, Sentinel)
         /\ producer' = "finished"
         /\ putters' = putters

\* The sentinel put without awaiting the tasks of chunk_tasks.
ProducerDrainedUnawaited ==
    /\ producer = "drain"
    /\ put_sentinel
    /\ UNCHANGED <<handler_vars, plan, src_next, prod_chunk, chunk_tasks, tasks,
                   ready, consumer, done_task, current_part, result, out>>

\* Every task of chunk_tasks is done: the sentinel is put.
ProducerDrained ==
    /\ producer = "drain"
    /\ \A i \in 1..Len(chunk_tasks) : ~task_pending(tasks, chunk_tasks[i])
    /\ put_sentinel
    /\ UNCHANGED <<handler_vars, plan, src_next, prod_chunk, chunk_tasks, tasks,
                   ready, consumer, done_task, current_part, result, out>>

\* The put of the sentinel runs again after its wake-up.
ProducerPutResume ==
    /\ producer = "put_woken"
    /\ put_sentinel
    /\ UNCHANGED <<handler_vars, plan, src_next, prod_chunk, chunk_tasks, tasks,
                   ready, consumer, done_task, current_part, result, out>>

\* CancelledError reaches the producer: buffer_task is done.
ProducerCancelled ==
    /\ producer = "cancelling"
    /\ ready # <<>>
    /\ Head(ready) = BufferTask
    /\ ready' = Tail(ready)
    /\ producer' = "cancelled"
    /\ UNCHANGED <<handler_vars, plan, src_next, prod_chunk, chunk_tasks, tasks,
                   putters, buffer, consumer, done_task, current_part, result, out>>

(***************************************************************************)
(* An enqueue task: prefetch_buffer.put(chunk).                            *)
(***************************************************************************)
\* The task runs (first, or after a wake-up): while self.full() it waits in
\* _putters, otherwise put_nowait.
TaskRun(k) ==
    /\ ready # <<>>
    /\ k = Head(ready)
    /\ ready' = Tail(ready)
    /\ IF full(buffer)
       THEN /\ tasks' = [tasks EXCEPT ![k + 1] = "blocked"]
            /\ putters' = Append(putters, k)
            /\ buffer' = buffer
       ELSE /\ tasks' = [tasks EXCEPT ![k + 1] = "done"]
            /\ buffer' = Append(buffer, k)
            /\ putters' = putters
    /\ UNCHANGED <<handler_vars, plan, src_next, producer, prod_chunk, chunk_tasks,
                   consumer, done_task, current_part, result, out>>

(***************************************************************************)
(* The consumer, file_generator.                                           *)
(***************************************************************************)
\* First iteration: buffer_task is created and the while loop is entered.
ConsumerStart ==
    /\ consumer = "idle"
    /\ IF current_part <= plan.part_count
       THEN /\ consumer' = "get"
            /\ producer' = "fetch"
            /\ UNCHANGED <<tasks, ready, putters, result>>
       ELSE leave_loop(QState(tasks, ready, putters, "fetch"), buffer, "completed")
    /\ UNCHANGED <<handler_vars, plan, src_next, prod_chunk, chunk_tasks, buffer,
                   done_task, current_part, out>>

\* wait_for(prefetch_buffer.get(), 15.0) returns an item: the sentinel ends
\* the loop, a chunk is trimmed and yielded.
ConsumerGet ==
    /\ consumer = "get"
    /\ buffer # <<>>
    /\ buffer' = Tail(buffer)
    /\ LET S == wakeup_next(QState(tasks, ready, putters, producer)) IN
       IF Head(buffer) = Sentinel
       THEN /\ leave_loop(S, Tail(buffer), "sentinel")
            /\ out' = out
       ELSE /\ out' = out \o yielded_slice(Head(buffer), current_part)
            /\ consumer' = "yield"
            /\ tasks' = S.tasks
            /\ ready' = S.ready
            /\ putters' = S.putters
            /\ producer' = S.producer
            /\ result' = result
    /\ UNCHANGED <<handler_vars, plan, src_next, prod_chunk, chunk_tasks,
                   done_task, current_part>>

\* wait_for times out on an empty queue: "Prefetch timeout - retrying".
ConsumerTimeout ==
    /\ consumer = "get"
    /\ buffer = <<>>
    /\ UNCHANGED vars

\* The transport asks for the next part: current_part += 1 and the loop
\* condition.
ConsumerResume ==
    /\ consumer = "yield"
    /\ current_part' = current_part + 1
    /\ IF current_part + 1 <= plan.part_count
       THEN /\ consumer' = "get"
            /\ UNCHANGED <<tasks, ready, putters, producer, result>>
       ELSE leave_loop(QState(tasks, ready, putters, producer), buffer, "completed")
    /\ UNCHANGED <<handler_vars, plan, src_next, prod_chunk, chunk_tasks, buffer,
                   done_task, out>>

\* The client disconnects: the generator is cancelled at its get or closed
\* at its yield.
ConsumerClosed ==
    /\ consumer \in {"get", "yield"}
    /\ leave_loop(QState(tasks, ready, putters, producer), buffer, "closed")
    /\ UNCHANGED <<handler_vars, plan, src_next, prod_chunk, chunk_tasks, buffer,
                   done_task, current_part, out>>

\* await buffer_task returns in the finally block.
ConsumerFinallyDone ==
    /\ consumer = "finally"
    /\ producer_done(producer)
    /\ consumer' = "done"
    /\ UNCHANGED <<handler_vars, plan, src_next, producer, prod_chunk, chunk_tasks,
                   tasks, ready, putters, buffer, done_task, current_part, result, out>>

\* No request handler is running.
HandlersIdle ==
    /\ pc = [r \in Requests |-> "absent"]
    /\ req = [r \in Requests |-> NoInput]
    /\ resp = [r \in Requests |-> NoResp]
    /\ semaphore = max_concurrent
    /\ sem_waiters = <<>>
    /\ holds = {}
    /\ buffer_task = [r \in Requests |-> "none"]
    /\ sent = [r \in Requests |-> 0]

\* The body of any accepted /dl response.
StreamInit ==
    /\ HandlersIdle
    /\ \E n \in 0..MaxFileSize, h \in RangeHeaders :
          /\ range_and_plan(h, n).kind = "stream"
          /\ plan = range_and_plan(h, n).plan
    /\ src_next = 0
    /\ producer = "idle"
    /\ prod_chunk = NoChunk
    /\ chunk_tasks = <<>>
    /\ tasks = <<>>
    /\ ready = <<>>
    /\ putters = <<>>
    /\ buffer = <<>>
    /\ consumer = "idle"
    /\ done_task = NoChunk
    /\ current_part = 1
    /\ result = "none"
    /\ out = <<>>

StreamNext ==
    \/ ProducerFetch
    \/ ProducerFetchFails
    \/ ProducerWindowResume
    \/ ProducerSourceEnds
    \/ ProducerSourceEndsShort
    \/ ProducerDrained
    \/ ProducerPutResume
    \/ ProducerCancelled
    \/ \E k \in 0..(MaxFileSize \div chunk_size) : TaskRun(k)
    \/ ConsumerStart
    \/ ConsumerGet
    \/ ConsumerTimeout
    \/ ConsumerResume
    \/ ConsumerClosed
    \/ ConsumerFinallyDone

StreamSpec == StreamInit /\ [][StreamNext]_vars

(***************************************************************************)
(* Properties of one response body (checked under StreamSpec).             *)
(***************************************************************************)
\* The bytes from..until of the file, in order.
RequestedBytes == [i \in 1..(plan.until_bytes - plan.from_bytes + 1) |-> plan.from_bytes + i - 1]

\* C1: when the chunk source delivers every chunk and the client reads to
\* the end, the slices file_generator yields, concatenated, are exactly the
\* bytes from..until of the file (req_length of them), for every
\* 0 <= from <= until < fileSize.
C1_BodyIsRequestedBytes ==
    (/\ consumer = "done"
     /\ result \in {"completed", "sentinel"}
     /\ producer # "failed"
     /\ result = "sentinel" => src_next = n_chunks
     /\ 0 <= plan.from_bytes
     /\ plan.from_bytes <= plan.until_bytes
     /\ plan.until_bytes < plan.file_size)
        => /\ out = RequestedBytes
           /\ Len(out) = plan.req_length

\* C5: on every exit path of file_generator the producer is cancelled, if
\* it has not finished, and awaited: once the generator has finished,
\* buffer_task is done and takes no further chunk from the source.
C5_ProducerStoppedWhenGeneratorEnds ==
    /\ [](consumer = "done" => producer_done(producer))
    /\ [][consumer = "done" => (src_next' = src_next /\ Len(tasks') = Len(tasks))]_vars

C5_Witness ==
    /\ consumer = "done"
    /\ result = "closed"
    /\ producer = "cancelled"
    /\ src_next < n_chunks
    /\ Len(tasks) > 0

\* The enqueue operations that are outstanding.
PendingTasks == {k \in 0..(Len(tasks) - 1) : task_pending(tasks, k)}

\* The fetch operations in flight: the one __anext__ the producer awaits.
FetchesInFlight == IF producer = "fetch" /\ src_next < n_chunks THEN 1 ELSE 0

C7_Bounds ==
    /\ Len(buffer) <= maxsize
    /\ Cardinality(PendingTasks) <= max_parallel_chunks
    /\ Len(chunk_tasks) <= max_parallel_chunks
    /\ FetchesInFlight <= max_parallel_chunks

\* C7 as claimed: the buffer holds at most maxsize items, at most
\* max_parallel_chunks enqueue operations and fetches are outstanding, and
\* with a full window the producer takes no chunk from the source until the
\* oldest enqueue has completed.
C7_WaitsBeforeTakingNextChunk ==
    /\ []C7_Bounds
    /\ [][(window_full(chunk_tasks) /\ task_pending(tasks, Head(chunk_tasks)))
              => src_next' = src_next]_vars

\* C7 as amended: the same bounds; with a full window the producer takes
\* the next chunk from the source first and then, holding it, waits for the
\* oldest enqueue to complete before it creates the enqueue of that chunk
\* and before it takes another chunk.
C7_WaitsBeforeNextEnqueue ==
    /\ []C7_Bounds
    /\ [][/\ Len(tasks') > Len(tasks) =>
                /\ producer = "window_wait" => ~task_pending(tasks, done_task)
                /\ (producer = "fetch" /\ Len(chunk_tasks) >= max_parallel_chunks)
                      => ~task_pending(tasks, Head(chunk_tasks))
          /\ (producer = "window_wait" /\ task_pending(tasks, done_task)) =>
                /\ src_next' = src_next
                /\ prod_chunk' = prod_chunk
                /\ producer' \in {"window_wait", "cancelling"}]_vars

C7_Witness ==
    /\ producer = "window_wait"
    /\ task_pending(tasks, done_task)
    /\ prod_chunk = src_next - 1
    /\ Cardinality(PendingTasks) = max_parallel_chunks
    /\ Len(buffer) = maxsize

(***************************************************************************)
(* One response body under the scheduling of the event loop: a task that   *)
(* can run is run, a producer or consumer whose await has completed is     *)
(* resumed, the chunk source answers and the client asks for the next      *)
(* part.  A failure of the source and a disconnect of the client are never *)
(* forced, and neither is a short read of the source.                      *)
(***************************************************************************)
StreamFairness ==
    /\ WF_vars(ProducerFetch)
    /\ WF_vars(ProducerWindowResume)
    /\ WF_vars(ProducerSourceEnds)
    /\ WF_vars(ProducerDrained)
    /\ WF_vars(ProducerPutResume)
    /\ WF_vars(ProducerCancelled)
    /\ WF_vars(\E k \in 0..(MaxFileSize \div chunk_size) : TaskRun(k))
    /\ WF_vars(ConsumerStart)
    /\ WF_vars(ConsumerGet)
    /\ WF_vars(ConsumerResume)
    /\ WF_vars(ConsumerFinallyDone)

StreamFairSpec == StreamInit /\ [][StreamNext]_vars /\ StreamFairness

\* C11: when the producer has ended because the chunk source raised before
\* it had delivered part_count chunks, the failure reaches the consumer:
\* the generator eventually ends instead of waiting on the buffer, and it
\* does not end as a normal completion.
C11_FetchFailureEndsSession ==
    (producer = "failed" /\ src_next < plan.part_count)
        ~> (consumer = "done" /\ result # "completed")

\* The generator returns normally, having logged "File download completed
\* successfully": the loop condition failed, or break left the loop.
completed_successfully(res) == res \in {"completed", "sentinel"}

\* C12: when the consumer receives the sentinel before part_count parts
\* have been emitted, the generator does not end as a normal "completed
\* successfully" with fewer than req_length bytes emitted.
C12_EarlySentinelIsStreamError ==
    (/\ consumer = "done"
     /\ result = "sentinel"
     /\ current_part <= plan.part_count
     /\ Len(out) < plan.req_length)
        => ~completed_successfully(result)

\* While the consumer is in its loop, the data chunks of the buffer are
\* consecutive chunks of the file.
BufferAscending ==
    consumer \in {"get", "yield"} =>
        \A i \in 1..(Len(buffer) - 1) :
            buffer[i + 1] # Sentinel => buffer[i + 1] = buffer[i] + 1

\* C13: under every interleaving of the producer, its enqueue tasks and the
\* consumer, chunks enter the buffer in ascending offset order without gap
\* or duplicate, and the k-th chunk the consumer takes is the chunk at
\* offset + (k - 1) * chunk_size.
C13_ChunksInOffsetOrder ==
    /\ []BufferAscending
    /\ [][(consumer = "get" /\ consumer' = "yield")
              => chunk_base(Head(buffer)) = plan.offset + (current_part - 1) * chunk_size]_vars

\* C14: every range that passes validation gives, after until is clamped
\* to fileSize - 1, a byte range with 0 <= from <= until < fileSize, hence
\* req_length >= 1 and a well-formed Content-Range; a request whose until
\* equals fileSize is accepted and clamped.
C14_AcceptedRangeIsWellFormed ==
    \A r \in Requests :
        /\ resp[r].kind = "stream" =>
              /\ 0 <= resp[r].plan.from_bytes
              /\ resp[r].plan.from_bytes <= resp[r].plan.until_bytes
              /\ resp[r].plan.until_bytes < resp[r].plan.file_size
              /\ resp[r].plan.req_length >= 1
              /\ resp[r].content_range.first <= resp[r].content_range.last
        /\ (/\ RangeResolved(r)
            /\ ClaimUntil(req[r]) = req[r].file_size
            /\ 0 <= ClaimFrom(req[r])
            /\ ClaimFrom(req[r]) <= ClaimUntil(req[r]))
              => /\ resp[r].kind = "stream"
                 /\ resp[r].plan.until_bytes = req[r].file_size - 1

\* m is a mod c; n is the ceiling, the floor of a / c.
IsMod(m, a, c) == 0 <= m /\ m < c /\ \E k \in -1..a : a = k * c + m

IsCeil(n, a, c) == n * c >= a /\ (n - 1) * c < a

IsFloor(n, a, c) == n * c <= a /\ a < (n + 1) * c

\* The plan p obeys the formulas of the chunk plan for chunk size c.
PlanFormulas(p, c) ==
    /\ IsMod(p.from_bytes - p.offset, p.from_bytes, c)
    /\ p.first_part_cut = p.from_bytes - p.offset
    /\ IsMod(p.last_part_cut - 1, p.until_bytes, c)
    /\ \E hi \in 0..(p.until_bytes + 1), lo \in 0..p.offset :
          /\ IsCeil(hi, p.until_bytes, c)
          /\ IsFloor(lo, p.offset, c)
          /\ p.part_count = hi - lo

\* C15: for every accepted (from, until) the plan has
\* offset = from - (from mod c), first_part_cut = from - offset,
\* last_part_cut = (until mod c) + 1 and
\* part_count = ceil(until / c) - floor(offset / c); fileSize 10000000,
\* c = 4194304, from 0, until 9999999 gives offset 0, first_part_cut 0 and
\* part_count 3; the plan of a request is not modified once computed.
C15_PlanFormulasAndFrozen ==
    /\ [](\A r \in Requests :
            resp[r].kind = "stream" => PlanFormulas(resp[r].plan, chunk_size))
    /\ [](LET p == chunk_plan(0, 9999999, 10000000, 4194304)
          IN p.offset = 0 /\ p.first_part_cut = 0 /\ p.part_count = 3)
    /\ [][\A r \in Requests :
            resp[r].kind = "stream" => resp'[r] = resp[r]]_vars

C15_Witness ==
    \E r \in Requests :
        /\ pc[r] = "done"
        /\ resp[r].kind = "stream"
        /\ sent[r] = resp[r].plan.part_count
        /\ resp[r].plan.first_part_cut > 0
        /\ resp[r].plan.part_count >= 2
        /\ resp[r].plan.until_bytes % chunk_size # 0

\* The chunk payloads the session keeps alive: the chunks in the buffer,
\* the chunks held by enqueue tasks that have not completed, and the chunk
\* the producer holds while it waits for the oldest enqueue.
LiveChunks ==
    Len(SelectSeq(buffer, LAMBDA x : x # Sentinel))
        + Cardinality(PendingTasks)
        + (IF producer = "window_wait" THEN 1 ELSE 0)

\* C16 as claimed: the chunk payloads alive never exceed the capacity of
\* the buffer.
C16_LiveChunksWithinCapacity == LiveChunks <= maxsize

\* C16 as amended: the chunk payloads alive never exceed the capacity of
\* the buffer plus the window of enqueue tasks plus the one chunk the
\* producer holds.
C16_LiveChunksWithinCapacityAndWindow ==
    LiveChunks <= maxsize + max_parallel_chunks + 1

C16_Witness ==
    /\ LiveChunks = maxsize + max_parallel_chunks + 1
    /\ consumer \in {"get", "yield"}

\* Every chunk the producer took from the source has been enqueued.
AllFetchedEnqueued ==
    /\ Len(tasks) = src_next
    /\ \A i \in 1..Len(tasks) : tasks[i] = "done"

\* The sentinel, when in the buffer, is there once, as the last item.
SentinelLast ==
    \A i \in 1..Len(buffer) : buffer[i] = Sentinel => i = Len(buffer)

\* C17: the producer puts the sentinel only when the source has ended and
\* every chunk it fetched has been enqueued, once, after which nothing is
\* appended to the buffer: the sentinel is never followed by, or placed
\* ahead of, a data chunk; a producer that was cancelled or whose fetch
\* failed puts no sentinel; a producer whose source has ended and that is
\* not cancelled does put it.
C17_SentinelOnceAndLast ==
    /\ [](SentinelLast)
    /\ []((producer = "finished" \/ \E i \in 1..Len(buffer) : buffer[i] = Sentinel)
             => (producer = "finished" /\ AllFetchedEnqueued))
    /\ [][producer = "finished" =>
             (producer' = "finished" /\ buffer' \in {buffer, Tail(buffer)})]_vars
    /\ [][(producer \in {"failed", "cancelling", "cancelled"}) =>
             (/\ producer' \in {"failed", "cancelling", "cancelled"}
              /\ \A i \in 1..Len(buffer') : buffer'[i] # Sentinel)]_vars
    /\ (producer = "drain") ~> (producer \in {"finished", "cancelling", "cancelled"})

C17_Witness ==
    /\ producer = "finished"
    /\ src_next = n_chunks
    /\ Len(buffer) = maxsize
    /\ buffer[Len(buffer)] = Sentinel
    /\ buffer[1] # Sentinel
    /\ consumer \in {"get", "yield"}

\* The source ended before the end of the file.
SourceEndedShort ==
    /\ producer \in {"drain", "put_blocked", "put_woken", "finished"}
    /\ src_next < n_chunks

\* The session has terminated: the generator has ended and buffer_task is
\* done.
SessionTerminated == consumer = "done" /\ producer_done(producer)

\* C18: when the source delivers every chunk through the end of the file
\* and then ends, the client keeps reading and tasks are scheduled fairly,
\* the session eventually terminates: the consumer has left its loop and
\* the producer is finished or cancelled.
C18_SessionTerminates ==
    <>(\/ SessionTerminated
       \/ producer = "failed"
       \/ SourceEndedShort
       \/ result = "closed")

\* A session over a file with more chunks beyond part_count than buffer
\* and window hold has terminated, its producer cancelled on a full buffer
\* while it awaited the oldest enqueue.
C18_Witness ==
    /\ SessionTerminated
    /\ result = "completed"
    /\ producer = "cancelled"
    /\ plan.part_count >= 1
    /\ n_chunks - plan.part_count > maxsize + max_parallel_chunks
    /\ src_next = n_chunks
    /\ done_task # NoChunk
    /\ Len(buffer) = maxsize

\* C19: when the teardown of a session has completed (the producer was
\* cancelled and awaited in the finally block), no enqueue task created by
\* its producer is still pending.
C19_NoEnqueueTaskPendingAfterTeardown ==
    (consumer = "done" /\ producer = "cancelled") => PendingTasks = {}

\* The range of request q, as the claims read it, passes validation.
ClaimRangeValid(q) ==
    /\ q.range.present => q.range.from # Empty
    /\ ~(\/ ClaimUntil(q) > q.file_size
         \/ ClaimFrom(q) < 0
         \/ ClaimUntil(q) < ClaimFrom(q))

\* C20: a prefetch producer is started and parts or the headers of the
\* file are sent only for a request whose code is present, whose file was
\* resolved, whose code is the access code of the file and whose range
\* passed validation, the checks being made in that order: a request whose
\* file was not resolved gets neither 403 nor 416, a request with a
\* mismatched code gets none of 416, 200 and 206, and a request without a
\* code ends with 401 having neither waited for nor held a permit of the
\* gate nor called the remote store.
C20_ChecksBeforeStreaming ==
    \A r \in Requests :
        /\ (buffer_task[r] # "none" \/ sent[r] > 0 \/ resp[r].kind = "stream") =>
              /\ ~code_missing(req[r].code)
              /\ req[r].lookup = "file"
              /\ ClaimCode(req[r]) = raw_text
              /\ ClaimRangeValid(req[r])
        /\ (Decided(r) /\ ~code_missing(req[r].code) /\ req[r].lookup # "file") =>
              /\ resp[r].kind = "error"
              /\ resp[r].status \notin {403, 416, 200, 206}
        /\ (Decided(r) /\ ~code_missing(req[r].code) /\ ClaimCode(req[r]) # raw_text) =>
              /\ resp[r].kind = "error"
              /\ resp[r].status \notin {416, 200, 206}
        /\ code_missing(req[r].code) =>
              /\ pc[r] \in {"absent", "new", "done"}
              /\ r \notin holds
              /\ \A i \in 1..Len(sem_waiters) : sem_waiters[i] # r
              /\ pc[r] = "done" =>
                    /\ resp[r].kind = "error" /\ resp[r].status = 401
                    /\ buffer_task[r] = "none" /\ sent[r] = 0

\* A /dl request with a mismatched code for a resolved file has been
\* refused with 403.
C20_Witness ==
    \E r \in Requests :
        /\ pc[r] = "done" /\ req[r].route = "dl"
        /\ ~code_missing(req[r].code)
        /\ req[r].lookup = "file"
        /\ ClaimCode(req[r]) # raw_text
        /\ resp[r].status = 403

\* A request without a code has ended with 401 while every permit of the
\* gate was held by others.
C20_WitnessNoCode ==
    \E r \in Requests :
        /\ code_missing(req[r].code) /\ pc[r] = "done"
        /\ resp[r].status = 401
        /\ Cardinality(holds) = max_concurrent

====
